---- MODULE Spec2Model ----
(***************************************************************************)
(* The archive RPC service (client/rpc-spec-v2/src/archive/archive.rs):    *)
(* one-shot subscriptions body, header, hashByHeight and storage over a    *)
(* chain backend.  Strings are sequences of one-character strings, bytes   *)
(* are naturals below 256, Option<T> is a sequence of length 0 or 1, and   *)
(* Result<T, E> is a record [ok, val] or [ok, err].                        *)
(***************************************************************************)
EXTENDS Integers, Sequences, FiniteSets, TLC

\* Number of blocks of the block tree; hashes are 1..MaxBlocks, 1 the root.
MaxBlocks == 5

\* A u32 is kept as two 16-bit limbs [hi, lo], of value hi * Limb + lo: the
\* parsed height and the block numbers have the width they have in the code.
Limb == 65536

Some(x) == <<x>>
None == <<>>
Ok(x) == [ok |-> TRUE, val |-> x]
Err(e) == [ok |-> FALSE, err |-> e]

Last(q) == q[Len(q)]
Front(q) == SubSeq(q, 1, Len(q) - 1)
Range(q) == {q[i] : i \in 1..Len(q)}

-----------------------------------------------------------------------------
(* Hexadecimal strings.                                                    *)

HexDigits == <<"0", "1", "2", "3", "4", "5", "6", "7", "8", "9",
               "a", "b", "c", "d", "e", "f">>
UpperHexDigits == <<"A", "B", "C", "D", "E", "F">>

IsHexChar(c) ==
    \/ \E i \in 1..16 : HexDigits[i] = c
    \/ \E i \in 1..6 : UpperHexDigits[i] = c

HexVal(c) ==
    IF \E i \in 1..16 : HexDigits[i] = c
    THEN (CHOOSE i \in 1..16 : HexDigits[i] = c) - 1
    ELSE 9 + (CHOOSE i \in 1..6 : UpperHexDigits[i] = c)

StartsWith(s, prefix) ==
    /\ Len(s) >= Len(prefix)
    /\ SubSeq(s, 1, Len(prefix)) = prefix

\* hex::encode and HexDisplay: two lower-case digits per byte.
hex_encode(bytes) ==
    [i \in 1..(2 * Len(bytes)) |->
        IF i % 2 = 1 THEN HexDigits[(bytes[(i + 1) \div 2] \div 16) + 1]
                     ELSE HexDigits[(bytes[i \div 2] % 16) + 1]]

\* format!("0x{}", ...)
format_0x(bytes) == <<"0", "x">> \o hex_encode(bytes)

\* array_bytes::hex2bytes: one optional "0x", then an even number of digits.
hex2bytes(hex) ==
    LET digits == IF StartsWith(hex, <<"0", "x">>)
                  THEN SubSeq(hex, 3, Len(hex)) ELSE hex
    IN  IF Len(digits) % 2 # 0 THEN Err("InvalidLength")
        ELSE IF \E i \in 1..Len(digits) : ~IsHexChar(digits[i])
             THEN Err("InvalidCharacter")
             ELSE Ok([i \in 1..(Len(digits) \div 2) |->
                        16 * HexVal(digits[2 * i - 1]) + HexVal(digits[2 * i])])

\* str::trim_start_matches("0x"): removes every leading repetition.
RECURSIVE trim_start_matches_0x(_)
trim_start_matches_0x(s) ==
    IF StartsWith(s, <<"0", "x">>)
    THEN trim_start_matches_0x(SubSeq(s, 3, Len(s)))
    ELSE s

u32_from(n) == [hi |-> n \div Limb, lo |-> n % Limb]
u32_ge(a, b) == a.hi > b.hi \/ (a.hi = b.hi /\ a.lo >= b.lo)

RECURSIVE RadixDigits(_, _)
RadixDigits(digits, acc) ==
    IF digits = <<>> THEN Ok(acc)
    ELSE IF ~IsHexChar(digits[1]) THEN Err("InvalidDigit")
    ELSE LET lo == 16 * acc.lo + HexVal(digits[1])
             hi == 16 * acc.hi + (lo \div Limb)
         IN  IF hi >= Limb THEN Err("PosOverflow")
             ELSE RadixDigits(Tail(digits), [hi |-> hi, lo |-> lo % Limb])

\* u32::from_str_radix(s, 16): an optional "+", at least one digit, no
\* overflow of u32.
u32_from_str_radix(s) ==
    LET digits == IF s # <<>> /\ s[1] = "+" THEN Tail(s) ELSE s
    IN  IF s = <<>> THEN Err("Empty")
        ELSE IF digits = <<>> THEN Err("InvalidDigit")
        ELSE RadixDigits(digits, u32_from(0))

-----------------------------------------------------------------------------
(* Storage keys.                                                           *)

\* b":child_storage:"
CHILD_STORAGE_KEY_PREFIX ==
    <<58, 99, 104, 105, 108, 100, 95, 115, 116, 111, 114, 97, 103, 101, 58>>

\* b":child_storage:default:"
DEFAULT_CHILD_STORAGE_KEY_PREFIX ==
    CHILD_STORAGE_KEY_PREFIX \o <<100, 101, 102, 97, 117, 108, 116, 58>>

is_child_storage_key(key) == StartsWith(key, CHILD_STORAGE_KEY_PREFIX)

is_default_child_storage_key(key) ==
    StartsWith(key, DEFAULT_CHILD_STORAGE_KEY_PREFIX)

\* ChildInfo::new_default_from_vec and ChildInfo::storage_key.
new_default_from_vec(bytes) == [kind |-> "ParentKeyId", data |-> bytes]
storage_key(child_info) == child_info.data

\* A child descriptor whose storage key is in a reserved namespace.
child_key_default_only(child_key) ==
    is_default_child_storage_key(storage_key(child_key))

\* The child key must not be prefixed with ":child_storage:" nor
\* ":child_storage:default:".
child_key_reserved(child_key) ==
    \/ is_default_child_storage_key(storage_key(child_key))
    \/ is_child_storage_key(storage_key(child_key))

\* A main key in the default child namespace only.
main_key_default_only(key) == is_default_child_storage_key(key)

\* The main key must not be prefixed with b":child_storage:" nor
\* b":child_storage:default:".
main_key_reserved(key) ==
    is_default_child_storage_key(key) \/ is_child_storage_key(key)

-----------------------------------------------------------------------------
(* The block tree of the backend.                                          *)

Blocks == 1..MaxBlocks
\* A hash that names no block of the tree.
UnknownHash == MaxBlocks + 1
Hashes == Blocks \cup {UnknownHash}

\* Every block but the root has a parent imported before it.
Trees == {p \in [Blocks \ {1} -> Blocks] : \A b \in Blocks \ {1} : p[b] < b}

RECURSIVE NumberOf(_, _)
NumberOf(p, b) == IF b = 1 THEN 0 ELSE 1 + NumberOf(p, p[b])

RECURSIVE AncestorsOf(_, _)
AncestorsOf(p, b) == IF b = 1 THEN {1} ELSE {b} \cup AncestorsOf(p, p[b])

IsDescendant(p, b, a) == a \in AncestorsOf(p, b)

RECURSIVE SortedSeq(_)
SortedSeq(S) ==
    IF S = {} THEN <<>>
    ELSE LET m == CHOOSE x \in S : \A y \in S : x <= y
         IN  <<m>> \o SortedSeq(S \ {m})

\* The children of a block, in the order of import.
ChildrenOf(p, h) == SortedSeq({b \in Blocks \ {1} : p[b] = h})

Errors == {[variant |-> "Backend", msg |-> "io"],
           [variant |-> "StateDatabase", msg |-> "corrupt"]}

\* Display of sp_blockchain::Error
to_string(error) == <<error.variant, ": ", error.msg>>

RECURSIVE Concat(_)
Concat(qs) == IF qs = <<>> THEN <<>> ELSE qs[1] \o Concat(Tail(qs))

\* The extrinsics of a block and their SCALE encoding (compact length, items).
ExtrinsicsOf(b) == [i \in 1..(b % 3) |-> <<b, i>>]
encode_vec(items) == <<4 * Len(items)>> \o Concat(items)

HeaderOf(p, b) ==
    [parent_hash |-> IF b = 1 THEN 0 ELSE p[b], number |-> NumberOf(p, b)]
encode_header(header) == <<header.parent_hash, 4 * header.number>>

-----------------------------------------------------------------------------
(* What the backend may answer to each lookup.                             *)

AllErr == {Err(e) : e \in Errors}

\* client.block(&BlockId::Hash(hash))
block_responses(p, hash) ==
    {Ok(Some([extrinsics |-> ExtrinsicsOf(b)])) : b \in Blocks \cap {hash}}
        \cup {Ok(None)} \cup AllErr

\* client.header(BlockId::Hash(hash))
header_responses(p, hash) ==
    {Ok(Some(HeaderOf(p, b))) : b \in Blocks \cap {hash}}
        \cup {Ok(None)} \cup AllErr

\* client.block_hash(number): the block of the finalized chain with that number
block_hash_responses(p, finalized_hash, number) ==
    {Ok(Some(b)) : b \in {a \in AncestorsOf(p, finalized_hash) :
                             u32_from(NumberOf(p, a)) = number}}
        \cup {Ok(None)} \cup AllErr

\* backend.blockchain().children(hash)
children_responses(p, hash) == {Ok(ChildrenOf(p, hash))} \cup AllErr

StorageValues == {<<>>, <<1, 171>>}

\* client.storage(hash, &key) and client.child_storage(hash, &child_key, &key)
storage_responses == {Ok(Some(v)) : v \in StorageValues} \cup {Ok(None)} \cup AllErr

-----------------------------------------------------------------------------
(* Events and rejections.                                                  *)

Done(result) == [event |-> "Done", result |-> result]
Inaccessible == [event |-> "Inaccessible"]
Error(error) == [event |-> "Error", error |-> error]
InvalidParam(param) == [error |-> "InvalidParam", param |-> param]

-----------------------------------------------------------------------------
(* The requests of the callers.                                            *)

Subs == {"s1", "s2"}

\* The bytes of the genesis hash handed to Archive::new.
GenesisInputs == {<<222, 173>>, <<0, 1, 255>>}

HeightStrings ==
    {<<"0", "x", HexDigits[n + 1]>> : n \in 0..MaxBlocks}
        \cup {<<"2">>,
              <<"0", "x", "0", "x", "1">>,
              <<"+", "1">>,
              <<"0", "0", "0", "0", "0", "0", "0", "0", "1">>,
              <<"f", "f", "f", "f", "f", "f", "f", "f">>,
              <<>>,
              <<"0", "x">>,
              <<"z", "z">>,
              <<"0", "x", "1", "0", "0", "0", "0", "0", "0", "0", "0">>}

NotHex == <<"n", "o", "t", "-", "h", "e", "x">>

KeyStrings ==
    {format_0x(<<0>>),
     format_0x(<<>>),
     format_0x(CHILD_STORAGE_KEY_PREFIX \o <<1>>),
     format_0x(DEFAULT_CHILD_STORAGE_KEY_PREFIX),
     hex_encode(CHILD_STORAGE_KEY_PREFIX),
     format_0x(Front(CHILD_STORAGE_KEY_PREFIX)),
     NotHex,
     <<"0", "x", "z", "z">>}

ChildKeyParams == {None} \cup {Some(k) : k \in KeyStrings}

StorageHashes == {1, UnknownHash}

-----------------------------------------------------------------------------
(* The pure parts of the handlers.                                         *)

\* Ok(bytes), or the rejection that parse_hex_param sends on the sink.
parse_hex_param(param) ==
    LET decoded == hex2bytes(param)
    IN  IF decoded.ok THEN Ok(decoded.val) ELSE Err(InvalidParam(param))

\* The child key decoded without the "?": a malformed one counts as absent.
storage_params_unchecked_child(key, child_key) ==
    LET k == parse_hex_param(key)
        c == IF child_key = None THEN Ok(None)
             ELSE LET r == parse_hex_param(child_key[1])
                  IN  IF r.ok THEN Ok(Some(new_default_from_vec(r.val)))
                      ELSE Ok(None)
    IN  IF ~k.ok THEN k
        ELSE Ok([key |-> k.val, child_key |-> c.val])

\* The two uses of parse_hex_param by storage, each ended by "?".
storage_params(key, child_key) ==
    LET k == parse_hex_param(key)
        c == IF child_key = None THEN Ok(None)
             ELSE LET r == parse_hex_param(child_key[1])
                  IN  IF r.ok THEN Ok(Some(new_default_from_vec(r.val))) ELSE r
    IN  IF ~k.ok THEN k
        ELSE IF ~c.ok THEN c
        ELSE Ok([key |-> k.val, child_key |-> c.val])

\* str::strip_prefix("0x"): removes one leading "0x" at most.
strip_prefix_0x(s) ==
    IF StartsWith(s, <<"0", "x">>) THEN SubSeq(s, 3, Len(s)) ELSE s

\* The height parsed after the removal of a single "0x".
height_param_strip_once(height) ==
    LET parsed == u32_from_str_radix(strip_prefix_0x(height))
    IN  IF parsed.ok THEN Ok(parsed.val) ELSE Err(InvalidParam(height))

\* The height with a failed parse replaced by the default, 0.
height_param_or_default(height) ==
    LET parsed == u32_from_str_radix(trim_start_matches_0x(height))
    IN  IF parsed.ok THEN Ok(parsed.val) ELSE Ok(u32_from(0))

\* The height of hashByHeight: Ok(height_num) or the rejection.
height_param(height) ==
    LET parsed == u32_from_str_radix(trim_start_matches_0x(height))
    IN  IF parsed.ok THEN Ok(parsed.val) ELSE Err(InvalidParam(height))

\* A failed lookup of the block reported as a missing block.
body_event_error_as_inaccessible(res) ==
    IF res.ok /\ res.val # None
    THEN Done(format_0x(encode_vec(res.val[1].extrinsics)))
    ELSE Inaccessible

body_event(res) ==
    IF res.ok
    THEN IF res.val # None
         THEN Done(format_0x(encode_vec(res.val[1].extrinsics)))
         ELSE Inaccessible
    ELSE Error(to_string(res.err))

\* A missing header reported as a failure.
header_event_none_as_error(res) ==
    IF res.ok /\ res.val # None
    THEN Done(format_0x(encode_header(res.val[1])))
    ELSE Error(IF res.ok THEN <<"UnknownBlock">> ELSE to_string(res.err))

header_event(res) ==
    IF res.ok
    THEN IF res.val # None
         THEN Done(format_0x(encode_header(res.val[1])))
         ELSE Inaccessible
    ELSE Error(to_string(res.err))

\* A missing hash answered with the default (all-zero) hash.
finalized_result_default_hash(res) ==
    IF res.ok /\ res.val # None THEN <<res.val[1]>> ELSE <<0>>

\* if let Ok(Some(hash)) = client.block_hash(..) { vec![hash] } else { vec![] }
finalized_result(res) ==
    IF res.ok /\ res.val # None THEN <<res.val[1]>> ELSE <<>>

\* The finalized branch without its return: the future goes on to the search.
finalized_fall_through == "unfinalized"

\* The position of the future after the send of the finalized branch.
finalized_return == "done"

\* A test that leaves the finalized height itself to the search.
is_finalized_strict(finalized_number, height_num) ==
    u32_ge(finalized_number, height_num) /\ finalized_number # height_num

\* if finalized_number >= height_num.into()
is_finalized(finalized_number, height_num) ==
    u32_ge(finalized_number, height_num)

\* The mapping of header and body applied to the child trie.
child_storage_event_inaccessible(res) ==
    IF res.ok
    THEN IF res.val # None THEN Done(Some(format_0x(res.val[1]))) ELSE Inaccessible
    ELSE Error(to_string(res.err))

child_storage_event(res) ==
    IF res.ok
    THEN Done(IF res.val # None THEN Some(format_0x(res.val[1])) ELSE None)
    ELSE Error(to_string(res.err))

storage_event(res) ==
    IF res.ok
    THEN Done(IF res.val # None THEN Some(format_0x(res.val[1])) ELSE None)
    ELSE Error(to_string(res.err))

\* The number of a child taken two above the number of its parent.
saturating_add_two(number) ==
    IF number.lo < Limb - 2 THEN [number EXCEPT !.lo = @ + 2]
    ELSE IF number.hi < Limb - 1
         THEN [hi |-> number.hi + 1, lo |-> number.lo + 2 - Limb]
         ELSE [number EXCEPT !.lo = Limb - 1]

\* parent.number.saturating_add(One::one())
saturating_add_one(number) ==
    IF number.lo < Limb - 1 THEN [number EXCEPT !.lo = @ + 1]
    ELSE IF number.hi < Limb - 1 THEN [hi |-> number.hi + 1, lo |-> 0]
    ELSE number

\* The children of the popped entry pushed twice over.
push_children_twice(next_hash, popped, blocks) ==
    LET child_number == saturating_add_one(popped.number)
    IN  next_hash \o [i \in 1..Len(blocks) |->
                        [number |-> child_number, hash |-> blocks[i]]]
                  \o [i \in 1..Len(blocks) |->
                        [number |-> child_number, hash |-> blocks[i]]]

\* The work list after the children of the popped entry are pushed.
push_children(next_hash, popped, blocks) ==
    LET child_number == saturating_add_one(popped.number)
    IN  next_hash \o [i \in 1..Len(blocks) |->
                        [number |-> child_number, hash |-> blocks[i]]]

\* A match that is looked at and left on the work list.
search_iteration_match_not_popped(f, res) ==
    LET popped == Last(f.next_hash)
        rest == Front(f.next_hash)
    IN  IF popped.number = f.height_num
        THEN f
        ELSE IF ~res.ok
             THEN [f EXCEPT !.next_hash = rest]
             ELSE [f EXCEPT !.next_hash = push_children(rest, popped, res.val)]

\* The loop left at the first match.
search_iteration_break_on_match(f, res) ==
    LET popped == Last(f.next_hash)
        rest == Front(f.next_hash)
    IN  IF popped.number = f.height_num
        THEN [f EXCEPT !.next_hash = <<>>, !.result = Append(@, popped.hash)]
        ELSE IF ~res.ok
             THEN [f EXCEPT !.next_hash = rest]
             ELSE [f EXCEPT !.next_hash = push_children(rest, popped, res.val)]

\* The loop left at the first failed enumeration of children.
search_iteration_break_on_error(f, res) ==
    LET popped == Last(f.next_hash)
        rest == Front(f.next_hash)
    IN  IF popped.number = f.height_num
        THEN [f EXCEPT !.next_hash = rest, !.result = Append(@, popped.hash)]
        ELSE IF ~res.ok
             THEN [f EXCEPT !.next_hash = <<>>]
             ELSE [f EXCEPT !.next_hash = push_children(rest, popped, res.val)]

\* One iteration of the loop of get_blocks_by_height on the popped entry,
\* given the answer of the backend should the children be asked for.
search_iteration(f, res) ==
    LET popped == Last(f.next_hash)
        rest == Front(f.next_hash)
    IN  IF popped.number = f.height_num
        THEN [f EXCEPT !.next_hash = rest, !.result = Append(@, popped.hash)]
        ELSE IF ~res.ok
             THEN [f EXCEPT !.next_hash = rest]
             ELSE [f EXCEPT !.next_hash = push_children(rest, popped, res.val)]

-----------------------------------------------------------------------------
(* The state.                                                              *)

VARIABLES
    parent,      \* the block tree of the backend: the parent of each block
    info,        \* client.info(): finalized_hash and finalized_number
    pc,          \* per subscription: where its call and its future stand
    req,         \* per subscription: the operation called and its parameters
    frame,       \* per subscription: what the future captured and its locals
    rejections,  \* per subscription: the rejections sent on the sink
    events,      \* per subscription: the ArchiveEvents sent on the sink
    calls,       \* per subscription: the backend lookups made for it
    genesis,     \* the genesis hash of the chain, as handed to Archive::new
    genesis_hash,   \* the field genesis_hash of the service
    genesis_reply   \* what the last call of genesisHash returned, if any

vars == <<parent, info, pc, req, frame, rejections, events, calls,
          genesis, genesis_hash, genesis_reply>>

backend == <<parent, info>>

service == <<genesis, genesis_hash, genesis_reply>>

subscriptions == <<pc, req, frame, rejections, events, calls>>

\* The field as Archive::new would leave it without the "0x".
new_genesis_hash_unprefixed(bytes) == hex_encode(bytes)

\* let genesis_hash = format!("0x{}", hex::encode(genesis_hash))
new_genesis_hash(bytes) == <<"0", "x">> \o hex_encode(bytes)

\* The service as constructed over a backend, for the genesis hashes given.
InitWith(inputs) ==
    /\ genesis \in inputs
    /\ genesis_hash = new_genesis_hash(genesis)
    /\ genesis_reply = None
    /\ parent \in Trees
    /\ \E f \in Blocks :
          info = [finalized_hash |-> f,
                  finalized_number |-> u32_from(NumberOf(parent, f))]
    /\ pc = [s \in Subs |-> "idle"]
    /\ req = [s \in Subs |-> [op |-> "none"]]
    /\ frame = [s \in Subs |-> [op |-> "none"]]
    /\ rejections = [s \in Subs |-> <<>>]
    /\ events = [s \in Subs |-> <<>>]
    /\ calls = [s \in Subs |-> <<>>]

Init == InitWith({<<222, 173>>})

GenesisInit == InitWith(GenesisInputs)

\* sink.reject(..), after which the method returns without spawning
Reject(s, rejection) ==
    /\ rejections' = [rejections EXCEPT ![s] = Append(@, rejection)]
    /\ pc' = [pc EXCEPT ![s] = "returned"]
    /\ UNCHANGED <<frame, events, calls>>

\* The future built and dropped: it is never handed to the executor.
spawn_forgotten(s, captured) ==
    /\ frame' = [frame EXCEPT ![s] = captured]
    /\ pc' = [pc EXCEPT ![s] = "dropped"]
    /\ UNCHANGED <<rejections, events, calls>>

\* self.executor.spawn(.., fut.boxed())
Spawn(s, captured) ==
    /\ frame' = [frame EXCEPT ![s] = captured]
    /\ pc' = [pc EXCEPT ![s] = "spawned"]
    /\ UNCHANGED <<rejections, events, calls>>

\* The event sent on the sink of every open subscription.
send_on_every_sink(s, event) == events' = [o \in Subs |-> Append(events[o], event)]

\* sink.send(&event)
Send(s, event) == events' = [events EXCEPT ![s] = Append(@, event)]

\* A lookup of the backend and its answer.
Lookup(s, fn, arg, res) ==
    calls' = [calls EXCEPT ![s] = Append(@, [fn |-> fn, arg |-> arg, res |-> res])]

-----------------------------------------------------------------------------
(* body                                                                    *)

archive_unstable_body(s, hash) ==
    /\ pc[s] = "idle"
    /\ req' = [req EXCEPT ![s] = [op |-> "body", hash |-> hash]]
    /\ Spawn(s, [hash |-> hash])
    /\ UNCHANGED <<backend, service>>

body_future(s) ==
    /\ pc[s] = "spawned"
    /\ req[s].op = "body"
    /\ \E res \in block_responses(parent, frame[s].hash) :
          /\ Lookup(s, "block", frame[s].hash, res)
          /\ Send(s, body_event(res))
    /\ pc' = [pc EXCEPT ![s] = "done"]
    /\ UNCHANGED <<backend, service, req, frame, rejections>>

-----------------------------------------------------------------------------
(* header                                                                  *)

archive_unstable_header(s, hash) ==
    /\ pc[s] = "idle"
    /\ req' = [req EXCEPT ![s] = [op |-> "header", hash |-> hash]]
    /\ Spawn(s, [hash |-> hash])
    /\ UNCHANGED <<backend, service>>

header_future(s) ==
    /\ pc[s] = "spawned"
    /\ req[s].op = "header"
    /\ \E res \in header_responses(parent, frame[s].hash) :
          /\ Lookup(s, "header", frame[s].hash, res)
          /\ Send(s, header_event(res))
    /\ pc' = [pc EXCEPT ![s] = "done"]
    /\ UNCHANGED <<backend, service, req, frame, rejections>>

-----------------------------------------------------------------------------
(* hashByHeight                                                            *)

archive_unstable_hash_by_height(s, height) ==
    /\ pc[s] = "idle"
    /\ req' = [req EXCEPT ![s] = [op |-> "hashByHeight", height |-> height]]
    /\ LET height_num == height_param(height)
       IN  IF ~height_num.ok
           THEN Reject(s, height_num.err)
           ELSE Spawn(s, [height_num |-> height_num.val])
    /\ UNCHANGED <<backend, service>>

\* let finalized_number = client.info().finalized_number, and the test on it
hash_by_height_future(s) ==
    /\ pc[s] = "spawned"
    /\ req[s].op = "hashByHeight"
    /\ frame' = [frame EXCEPT ![s] =
                    [height_num |-> frame[s].height_num,
                     finalized_number |-> info.finalized_number]]
    /\ pc' = [pc EXCEPT ![s] =
                 IF is_finalized(info.finalized_number, frame[s].height_num)
                 THEN "finalized" ELSE "unfinalized"]
    /\ UNCHANGED <<backend, service, req, rejections, events, calls>>

\* The height has been finalized: the block of the finalized chain, if any.
hash_by_height_finalized(s) ==
    /\ pc[s] = "finalized"
    /\ \E res \in block_hash_responses(parent, info.finalized_hash,
                                       frame[s].height_num) :
          /\ Lookup(s, "block_hash", frame[s].height_num, res)
          /\ Send(s, Done(finalized_result(res)))
    /\ pc' = [pc EXCEPT ![s] = finalized_return]
    /\ UNCHANGED <<backend, service, req, frame, rejections>>

\* let finalized_hash = client.info().finalized_hash, and the entry of
\* get_blocks_by_height with the work list holding the seed
hash_by_height_seed(s) ==
    /\ pc[s] = "unfinalized"
    /\ frame' = [frame EXCEPT ![s] =
                    [height_num |-> frame[s].height_num,
                     finalized_number |-> frame[s].finalized_number,
                     finalized_hash |-> info.finalized_hash,
                     next_hash |-> <<[number |-> frame[s].finalized_number,
                                      hash |-> info.finalized_hash]>>,
                     result |-> <<>>]]
    /\ pc' = [pc EXCEPT ![s] = "search"]
    /\ UNCHANGED <<backend, service, req, rejections, events, calls>>

\* while let Some(parent) = next_hash.pop() { .. }
get_blocks_by_height_step(s) ==
    /\ pc[s] = "search"
    /\ frame[s].next_hash # <<>>
    /\ LET popped == Last(frame[s].next_hash)
       IN  IF popped.number = frame[s].height_num
           THEN /\ frame' = [frame EXCEPT ![s] = search_iteration(@, Ok(<<>>))]
                /\ UNCHANGED calls
           ELSE \E res \in children_responses(parent, popped.hash) :
                   /\ Lookup(s, "children", popped.hash, res)
                   /\ frame' = [frame EXCEPT ![s] = search_iteration(@, res)]
    /\ UNCHANGED <<backend, service, pc, req, rejections, events>>

\* The work list is empty: get_blocks_by_height returns and the list is sent.
get_blocks_by_height_return(s) ==
    /\ pc[s] = "search"
    /\ frame[s].next_hash = <<>>
    /\ Send(s, Done(frame[s].result))
    /\ pc' = [pc EXCEPT ![s] = "done"]
    /\ UNCHANGED <<backend, service, req, frame, rejections, calls>>

-----------------------------------------------------------------------------
(* storage                                                                 *)

archive_unstable_storage(s, hash, key, child_key) ==
    /\ pc[s] = "idle"
    /\ req' = [req EXCEPT ![s] = [op |-> "storage", hash |-> hash,
                                  key |-> key, child_key |-> child_key]]
    /\ LET params == storage_params(key, child_key)
       IN  IF ~params.ok
           THEN Reject(s, params.err)
           ELSE Spawn(s, [hash |-> hash, key |-> params.val.key,
                          child_key |-> params.val.child_key])
    /\ UNCHANGED <<backend, service>>

storage_future(s) ==
    /\ pc[s] = "spawned"
    /\ req[s].op = "storage"
    /\ LET f == frame[s]
       IN  IF f.child_key # None
           THEN IF child_key_reserved(f.child_key[1])
                THEN /\ Send(s, Done(None))
                     /\ UNCHANGED calls
                ELSE \E res \in storage_responses :
                        /\ Lookup(s, "child_storage",
                                  <<f.hash, f.child_key[1], f.key>>, res)
                        /\ Send(s, child_storage_event(res))
           ELSE IF main_key_reserved(f.key)
                THEN /\ Send(s, Done(None))
                     /\ UNCHANGED calls
                ELSE \E res \in storage_responses :
                        /\ Lookup(s, "storage", <<f.hash, f.key>>, res)
                        /\ Send(s, storage_event(res))
    /\ pc' = [pc EXCEPT ![s] = "done"]
    /\ UNCHANGED <<backend, service, req, frame, rejections>>

-----------------------------------------------------------------------------

\* fn archive_unstable_genesis_hash(&self) -> RpcResult<String>
archive_unstable_genesis_hash ==
    /\ genesis_reply' = Some(genesis_hash)
    /\ UNCHANGED <<backend, subscriptions, genesis, genesis_hash>>

\* The backend finalizes a child of the finalized block.
finalize_block ==
    /\ \E b \in Blocks \ {1} :
          /\ parent[b] = info.finalized_hash
          /\ info' = [finalized_hash |-> b,
                      finalized_number |-> u32_from(NumberOf(parent, b))]
    /\ UNCHANGED <<parent, service, subscriptions>>

\* The calls of the subscription methods.
Request(s) ==
    \/ \E hash \in Hashes : archive_unstable_body(s, hash)
    \/ \E hash \in Hashes : archive_unstable_header(s, hash)
    \/ \E height \in HeightStrings : archive_unstable_hash_by_height(s, height)
    \/ \E hash \in StorageHashes, key \in KeyStrings, child_key \in ChildKeyParams :
          archive_unstable_storage(s, hash, key, child_key)

\* The steps of the spawned future of a subscription.
Progress(s) ==
    \/ body_future(s)
    \/ header_future(s)
    \/ hash_by_height_future(s)
    \/ hash_by_height_finalized(s)
    \/ hash_by_height_seed(s)
    \/ get_blocks_by_height_step(s)
    \/ get_blocks_by_height_return(s)
    \/ storage_future(s)

\* One subscription over a backend that does not change.
Next == Request("s1") \/ Progress("s1")

Spec == Init /\ [][Next]_vars

\* The executor runs every spawned future.
FairSpec == Spec /\ WF_vars(Progress("s1"))

\* The same with calls of genesisHash in between.
GenesisNext == Next \/ archive_unstable_genesis_hash

GenesisSpec == GenesisInit /\ [][GenesisNext]_vars

\* The same while the backend finalizes blocks.
RaceNext == Next \/ finalize_block

RaceSpec == Init /\ [][RaceNext]_vars

\* Two forks under the root, two more under the first of them, and so on.
PairTree == [b \in Blocks \ {1} |-> b \div 2]

\* The service over one backend whose finalized block is the root.
PairInit == Init /\ parent = PairTree /\ info.finalized_hash = 1

\* The storage keys of the requests made two at a time: a plain key, a
\* reserved one and a malformed one.
PairKeys == {format_0x(<<0>>), format_0x(DEFAULT_CHILD_STORAGE_KEY_PREFIX), NotHex}

\* The calls of the subscription methods made two at a time.
PairRequest(s) ==
    \/ \E hash \in Hashes : archive_unstable_body(s, hash)
    \/ \E hash \in Hashes : archive_unstable_header(s, hash)
    \/ \E height \in HeightStrings : archive_unstable_hash_by_height(s, height)
    \/ \E key \in PairKeys, child_key \in {None} \cup {Some(k) : k \in PairKeys} :
          archive_unstable_storage(s, 1, key, child_key)

\* Two subscriptions at once over a backend that does not change: the
\* executor runs the spawned futures in any order.
PairNext == \E s \in Subs : PairRequest(s) \/ Progress(s)

PairSpec == PairInit /\ [][PairNext]_vars


-----------------------------------------------------------------------------
(* Properties.                                                             *)

Called(s) == pc[s] # "idle"
Completed(s) == pc[s] = "done"
IsOp(s, op) == req[s].op = op

\* The blocks whose enumeration of children failed for the subscription.
FailedChildren(s) ==
    {calls[s][i].arg : i \in {j \in 1..Len(calls[s]) :
                                 calls[s][j].fn = "children" /\ ~calls[s][j].res.ok}}

SomeLookupFailed(s) == \E i \in 1..Len(calls[s]) : ~calls[s][i].res.ok

\* The descendants of block a (a included) whose number is the u32 h.
DescendantsAt(p, a, h) ==
    {b \in Blocks : IsDescendant(p, b, a) /\ u32_from(NumberOf(p, b)) = h}

\* hashByHeight completed by the search, for a height above the finalized one.
SearchCompleted(s) ==
    /\ IsOp(s, "hashByHeight")
    /\ Completed(s)
    /\ ~u32_ge(info.finalized_number, frame[s].height_num)

\* hashByHeight completed for a height at or below the finalized one.
FinalizedCompleted(s) ==
    /\ IsOp(s, "hashByHeight")
    /\ Completed(s)
    /\ u32_ge(info.finalized_number, frame[s].height_num)

\* C1: on every subscription at most one event is sent and at most one
\* rejection, and never both an event and a rejection.
C1_AtMostOneOutcome ==
    \A s \in Subs :
        /\ Len(events[s]) <= 1
        /\ Len(rejections[s]) <= 1
        /\ ~(rejections[s] # <<>> /\ events[s] # <<>>)

C1_Witness ==
    \E s \in Subs :
        /\ IsOp(s, "hashByHeight")
        /\ Completed(s)
        /\ Len(calls[s]) = 1
        /\ calls[s][1].fn = "block_hash"
        /\ Len(events[s]) = 1
        /\ rejections[s] = <<>>

\* C2: for a height H above the finalized height, when every enumeration of
\* children succeeded, the list sent with Done is, as a set, the set of the
\* descendants of the finalized block whose number is H.
C2_ForkEnumeration ==
    \A s \in Subs :
        (SearchCompleted(s) /\ ~SomeLookupFailed(s)) =>
            /\ Len(events[s]) = 1
            /\ events[s][1].event = "Done"
            /\ Range(events[s][1].result) =
                  DescendantsAt(parent, info.finalized_hash, frame[s].height_num)

\* Two forks of length two from the finalized block, both found.
C2_Witness ==
    \E s \in Subs :
        /\ SearchCompleted(s)
        /\ ~SomeLookupFailed(s)
        /\ frame[s].height_num = u32_from(NumberOf(parent, info.finalized_hash) + 2)
        /\ Len(events[s]) = 1
        /\ Cardinality(Range(events[s][1].result)) = 2
        /\ \A b \in Range(events[s][1].result) : parent[b] # info.finalized_hash

\* C3: for a height H at or below the finalized height, the finalized one
\* included, the only lookup is block_hash(H), no children are enumerated,
\* and the list sent is [hash] when the lookup gives a hash and empty
\* otherwise.
C3_FinalizedLookup ==
    \A s \in Subs :
        FinalizedCompleted(s) =>
            /\ Len(calls[s]) = 1
            /\ calls[s][1].fn = "block_hash"
            /\ calls[s][1].arg = frame[s].height_num
            /\ Len(events[s]) = 1
            /\ events[s][1].event = "Done"
            /\ Len(events[s][1].result) <= 1
            /\ LET res == calls[s][1].res
               IN  IF res.ok /\ res.val # None
                   THEN events[s][1].result = <<res.val[1]>>
                   ELSE events[s][1].result = <<>>

C3_Witness ==
    \E s \in Subs :
        /\ FinalizedCompleted(s)
        /\ frame[s].height_num = info.finalized_number
        /\ info.finalized_hash # 1
        /\ events[s] = <<Done(<<info.finalized_hash>>)>>

\* A string that array_bytes::hex2bytes refuses.
Malformed(param) == ~hex2bytes(param).ok

StorageCalled(s) == IsOp(s, "storage") /\ Called(s)

\* C4: storage with a malformed key, or a well-formed key and a malformed
\* child key, returns with exactly one rejection, InvalidParam of the
\* offending string as given, and no event is sent on the subscription.
C4_InvalidHexRejected ==
    \A s \in Subs :
        StorageCalled(s) =>
            LET key == req[s].key
                child_key == req[s].child_key
            IN  /\ Malformed(key) =>
                      /\ rejections[s] = <<InvalidParam(key)>>
                      /\ events[s] = <<>>
                      /\ pc[s] = "returned"
                /\ (~Malformed(key) /\ child_key # None /\ Malformed(child_key[1])) =>
                      /\ rejections[s] = <<InvalidParam(child_key[1])>>
                      /\ events[s] = <<>>
                      /\ pc[s] = "returned"

C4_Witness ==
    \E s \in Subs :
        /\ StorageCalled(s)
        /\ req[s].key = <<"0", "x", "0", "0">>
        /\ req[s].child_key = Some(NotHex)
        /\ rejections[s] = <<InvalidParam(NotHex)>>
        /\ events[s] = <<>>

\* The future of a storage request has been spawned.
StorageSpawned(s) == IsOp(s, "storage") /\ pc[s] \in {"spawned", "done"}

HasReservedPrefix(bytes) ==
    \/ StartsWith(bytes, CHILD_STORAGE_KEY_PREFIX)
    \/ StartsWith(bytes, DEFAULT_CHILD_STORAGE_KEY_PREFIX)

LookupsOf(s, fn) == {i \in 1..Len(calls[s]) : calls[s][i].fn = fn}

\* C5: for a storage request without child key whose decoded key starts with
\* a reserved prefix, storage of the backend is never called, and the event
\* is Done with an absent result.
C5_ReservedMainKey ==
    \A s \in Subs :
        (StorageSpawned(s) /\ req[s].child_key = None
            /\ HasReservedPrefix(frame[s].key)) =>
            /\ LookupsOf(s, "storage") = {}
            /\ Completed(s) => events[s] = <<Done(None)>>

C5_Witness ==
    \E s \in Subs :
        /\ StorageSpawned(s)
        /\ req[s].child_key = None
        /\ frame[s].key = CHILD_STORAGE_KEY_PREFIX \o <<1>>
        /\ Completed(s)
        /\ events[s] = <<Done(None)>>
        /\ calls[s] = <<>>

\* C6: for a storage request whose child key decodes to bytes that start with
\* a reserved prefix, neither child_storage nor storage of the backend is
\* called, whatever the main key, and the event is Done with an absent result.
C6_ReservedChildKey ==
    \A s \in Subs :
        (StorageSpawned(s) /\ frame[s].child_key # None
            /\ HasReservedPrefix(frame[s].child_key[1].data)) =>
            /\ LookupsOf(s, "child_storage") = {}
            /\ LookupsOf(s, "storage") = {}
            /\ Completed(s) => events[s] = <<Done(None)>>

C6_Witness ==
    \E s \in Subs :
        /\ StorageSpawned(s)
        /\ frame[s].child_key = Some(new_default_from_vec(CHILD_STORAGE_KEY_PREFIX))
        /\ frame[s].key = <<0>>
        /\ Completed(s)
        /\ events[s] = <<Done(None)>>
        /\ calls[s] = <<>>

\* The event the claims give for the answer of a storage lookup.
StorageOutcome(res) ==
    IF ~res.ok THEN Error(to_string(res.err))
    ELSE IF res.val = None THEN Done(None)
    ELSE Done(Some(<<"0", "x">> \o hex_encode(res.val[1])))

\* C7: a completed storage request never sends Inaccessible; when it passed
\* the reserved-prefix checks it made exactly one lookup, child_storage with
\* (hash, child key, key) if a child key was given and storage with
\* (hash, key) otherwise, and in both cases the event is fixed by the answer:
\* Done with the hex of a present value, Done with an absent result for no
\* value, Error with the description of a failure.
C7_StorageOutcome ==
    \A s \in Subs :
        (IsOp(s, "storage") /\ Completed(s)) =>
            /\ Len(events[s]) = 1
            /\ events[s][1].event # "Inaccessible"
            /\ LET f == frame[s]
                   checked == IF f.child_key # None
                              THEN ~HasReservedPrefix(f.child_key[1].data)
                              ELSE ~HasReservedPrefix(f.key)
               IN  checked =>
                      /\ Len(calls[s]) = 1
                      /\ calls[s][1].fn =
                            (IF f.child_key # None THEN "child_storage" ELSE "storage")
                      /\ calls[s][1].arg =
                            (IF f.child_key # None
                             THEN <<req[s].hash, f.child_key[1], f.key>>
                             ELSE <<req[s].hash, f.key>>)
                      /\ events[s][1] = StorageOutcome(calls[s][1].res)

\* A child-trie lookup that found nothing, and the main key is a reserved one.
C7_Witness ==
    \E s \in Subs :
        /\ IsOp(s, "storage")
        /\ Completed(s)
        /\ frame[s].child_key = Some(new_default_from_vec(<<0>>))
        /\ frame[s].key = DEFAULT_CHILD_STORAGE_KEY_PREFIX
        /\ calls[s][1].res = Ok(None)
        /\ events[s] = <<Done(None)>>

\* "0x" and the hex of the encoded header, and of the encoded extrinsics, of
\* a block of the tree.
HeaderHex(b) == <<"0", "x">> \o hex_encode(encode_header(HeaderOf(parent, b)))
BodyHex(b) == <<"0", "x">> \o hex_encode(encode_vec(ExtrinsicsOf(b)))

\* C8: header and body make one lookup by the hash and send one event:
\* Done with the hex encoding when the backend finds the header or block,
\* Inaccessible when it answers that there is none, Error with the
\* description when the lookup fails.
C8_HeaderBodyOutcome ==
    \A s \in Subs :
        ((IsOp(s, "header") \/ IsOp(s, "body")) /\ Completed(s)) =>
            /\ Len(calls[s]) = 1
            /\ calls[s][1].fn = (IF IsOp(s, "header") THEN "header" ELSE "block")
            /\ calls[s][1].arg = req[s].hash
            /\ Len(events[s]) = 1
            /\ LET res == calls[s][1].res
               IN  IF ~res.ok THEN events[s][1] = Error(to_string(res.err))
                   ELSE IF res.val = None THEN events[s][1] = Inaccessible
                   ELSE events[s][1] =
                           Done(IF IsOp(s, "header") THEN HeaderHex(req[s].hash)
                                ELSE BodyHex(req[s].hash))

\* header(unknownHash)
C8_Witness ==
    \E s \in Subs :
        /\ IsOp(s, "header")
        /\ Completed(s)
        /\ req[s].hash = UnknownHash
        /\ calls[s][1].res = Ok(None)
        /\ events[s] = <<Inaccessible>>

\* The blocks the search can reach from block a without passing a block of
\* the set failed: a itself, and every child of a reached block not in failed.
RECURSIVE ReachableAvoiding(_, _, _)
ReachableAvoiding(p, a, failed) ==
    {a} \cup (IF a \in failed THEN {}
              ELSE UNION {ReachableAvoiding(p, c, failed) :
                             c \in {b \in Blocks \ {1} : p[b] = a}})

\* C9: when enumerations of children fail during the search, the list sent
\* with Done still holds every block of number H that descends from the
\* finalized block through blocks whose enumeration did not fail.
C9_FailedBranchSkipped ==
    \A s \in Subs :
        SearchCompleted(s) =>
            /\ Len(events[s]) = 1
            /\ events[s][1].event = "Done"
            /\ {b \in ReachableAvoiding(parent, info.finalized_hash, FailedChildren(s)) :
                   u32_from(NumberOf(parent, b)) = frame[s].height_num}
                  \subseteq Range(events[s][1].result)

\* The enumeration failed for one block, pending entries of the work list
\* were still expanded, and a block of a sibling branch is in the list.
C9_Witness ==
    \E s \in Subs :
        /\ SearchCompleted(s)
        /\ FailedChildren(s) # {}
        /\ \E i \in 1..Len(calls[s]) :
              /\ ~calls[s][i].res.ok
              /\ i < Len(calls[s])
        /\ events[s][1].result # <<>>

\* C10 as stated: whatever the operation, a subscription for which a backend
\* lookup failed ends with the Error event of that failure.
C10_EveryFailureIsError ==
    \A s \in Subs :
        (Completed(s) /\ SomeLookupFailed(s)) =>
            \E i \in 1..Len(calls[s]) :
                /\ ~calls[s][i].res.ok
                /\ events[s] = <<Error(to_string(calls[s][i].res.err))>>

\* C10 amended: for body, header and storage a failed lookup gives the Error
\* event with the description of the failure; for hashByHeight no failed
\* lookup gives Error: the event is Done.
C10_FailureIsErrorButHashByHeight ==
    \A s \in Subs :
        (Completed(s) /\ SomeLookupFailed(s)) =>
            IF IsOp(s, "hashByHeight")
            THEN /\ Len(events[s]) = 1
                 /\ events[s][1].event = "Done"
            ELSE /\ Len(calls[s]) = 1
                 /\ events[s] = <<Error(to_string(calls[s][1].res.err))>>

C10_Witness ==
    \E s \in Subs :
        /\ IsOp(s, "body")
        /\ Completed(s)
        /\ req[s].hash \in Blocks
        /\ SomeLookupFailed(s)
        /\ events[s] = <<Error(<<"Backend", ": ", "io">>)>>

-----------------------------------------------------------------------------

HashByHeightCalled(s) == IsOp(s, "hashByHeight") /\ Called(s)

Rejected(s) == pc[s] = "returned" /\ rejections[s] # <<>>

AllHexDigits(s) == \A i \in 1..Len(s) : IsHexChar(s[i])

\* A hexadecimal number with an optional "0x" before it.
IsHexNumber(s) ==
    LET digits == IF StartsWith(s, <<"0", "x">>) THEN SubSeq(s, 3, Len(s)) ELSE s
    IN  digits # <<>> /\ AllHexDigits(digits)

RECURSIVE DropLeading(_, _)
DropLeading(s, c) ==
    IF s # <<>> /\ s[1] = c THEN DropLeading(Tail(s), c) ELSE s

RECURSIVE DropLeading0x(_)
DropLeading0x(s) ==
    IF Len(s) >= 2 /\ s[1] = "0" /\ s[2] = "x"
    THEN DropLeading0x(Tail(Tail(s))) ELSE s

\* What the code accepts: after any number of leading "0x", an optional "+"
\* and at least one hex digit, with at most eight digits after the leading
\* zeros (a value that fits u32).
IsU32Height(s) ==
    LET rest == DropLeading0x(s)
        digits == IF rest # <<>> /\ rest[1] = "+" THEN Tail(rest) ELSE rest
    IN  /\ digits # <<>>
        /\ AllHexDigits(digits)
        /\ Len(DropLeading(digits, "0")) <= 8

\* C11 as stated: hashByHeight rejects exactly the strings that are not
\* hexadecimal numbers, and a completed accepted request has sent Done.
C11_RejectsExactlyNonHex ==
    \A s \in Subs :
        HashByHeightCalled(s) =>
            /\ Rejected(s) <=> ~IsHexNumber(req[s].height)
            /\ Rejected(s) => rejections[s] = <<InvalidParam(req[s].height)>>
            /\ Completed(s) => (Len(events[s]) = 1 /\ events[s][1].event = "Done")

\* C11 amended: hashByHeight rejects, with InvalidParam of the string as
\* given and without spawning, exactly the strings that are not a u32 in
\* radix 16 once every leading "0x" is removed; a hexadecimal number above
\* u32::MAX is rejected; a completed accepted request has sent Done.
C11_RejectsExactlyNonU32 ==
    \A s \in Subs :
        HashByHeightCalled(s) =>
            /\ Rejected(s) <=> ~IsU32Height(req[s].height)
            /\ Rejected(s) =>
                  /\ rejections[s] = <<InvalidParam(req[s].height)>>
                  /\ events[s] = <<>>
                  /\ calls[s] = <<>>
            /\ Completed(s) => (Len(events[s]) = 1 /\ events[s][1].event = "Done")

\* 0x100000000, one above u32::MAX, is rejected.
C11_Witness ==
    \E s \in Subs :
        /\ HashByHeightCalled(s)
        /\ req[s].height = <<"0", "x", "1", "0", "0", "0", "0", "0", "0", "0", "0">>
        /\ IsHexNumber(req[s].height)
        /\ rejections[s] = <<InvalidParam(req[s].height)>>

-----------------------------------------------------------------------------

\* The subscription has its rejection or its event.
Terminal(s) == rejections[s] # <<>> \/ events[s] # <<>>

\* C12: when the executor runs every spawned future, every subscription that
\* was opened eventually has its rejection or its one event, and a future that
\* was spawned runs to its end.
C12_EventuallyTerminal ==
    \A s \in Subs :
        /\ Called(s) ~> Terminal(s)
        /\ (pc[s] = "spawned") ~> (Completed(s) /\ Len(events[s]) = 1)

\* A search that took several iterations, one of them failed, and sent its event.
C12_Witness ==
    \E s \in Subs :
        /\ IsOp(s, "hashByHeight")
        /\ Completed(s)
        /\ Len(calls[s]) >= 3
        /\ SomeLookupFailed(s)
        /\ Len(events[s]) = 1

-----------------------------------------------------------------------------

\* C13: the field genesis_hash is "0x" and the hex of the bytes handed to the
\* constructor in every reachable state, whatever calls were made; what
\* genesisHash returned is that string; a call of genesisHash changes nothing
\* of the subscriptions (it spawns nothing) and nothing of the backend; and no
\* step changes the field.
C13_GenesisHashConstant ==
    /\ [](/\ genesis_hash = <<"0", "x">> \o hex_encode(genesis)
          /\ genesis_reply # None => genesis_reply = Some(genesis_hash))
    /\ [][/\ genesis_hash' = genesis_hash
          /\ genesis' = genesis
          /\ genesis_reply' # genesis_reply =>
                (UNCHANGED <<backend, subscriptions>>
                    /\ genesis_reply' = Some(genesis_hash))]_vars

\* genesisHash answered "0x0001ff" after a storage request was served.
C13_Witness ==
    /\ genesis = <<0, 1, 255>>
    /\ genesis_reply = Some(<<"0", "x", "0", "0", "0", "1", "f", "f">>)
    /\ \E s \in Subs : IsOp(s, "storage") /\ Completed(s)

-----------------------------------------------------------------------------

\* The lookups of the subscription that gave no hash, value or list.
NoHashGiven(res) == ~res.ok \/ res.val = None

\* C14: a hashByHeight request that was not rejected and has completed sent
\* exactly one event, and it is Done: with the empty list when the lookup of
\* the finalized branch produced no hash, and with the matches accumulated by
\* the search (none, possibly) on the other branch.
C14_HashByHeightAlwaysDone ==
    \A s \in Subs :
        (IsOp(s, "hashByHeight") /\ Completed(s)) =>
            /\ rejections[s] = <<>>
            /\ Len(events[s]) = 1
            /\ events[s][1].event = "Done"
            /\ u32_ge(frame[s].finalized_number, frame[s].height_num) =>
                  (NoHashGiven(calls[s][1].res) => events[s][1].result = <<>>)
            /\ ~u32_ge(frame[s].finalized_number, frame[s].height_num) =>
                  events[s][1].result = frame[s].result

\* The finalized height 0 was pruned: Done with the empty list.
C14_Witness ==
    \E s \in Subs :
        /\ IsOp(s, "hashByHeight")
        /\ Completed(s)
        /\ frame[s].height_num = u32_from(0)
        /\ calls[s][1].res = Ok(None)
        /\ events[s] = <<Done(<<>>)>>

-----------------------------------------------------------------------------

\* Something of the asynchronous path exists for the subscription: the future
\* with the handles it captured, or a lookup made for it.
AsyncWorkStarted(s) ==
    \/ pc[s] \notin {"idle", "returned"}
    \/ frame[s] # [op |-> "none"]
    \/ calls[s] # <<>>

\* C15: for storage and hashByHeight the future (with the clones it captures)
\* is spawned, and lookups are made, only for requests all of whose hex
\* parameters are valid; a rejected request has no future, captured nothing
\* and caused no lookup, and no step of a rejected subscription follows.
C15_ValidationFirst ==
    /\ [](\A s \in Subs :
            /\ (IsOp(s, "storage") /\ AsyncWorkStarted(s)) =>
                  /\ ~Malformed(req[s].key)
                  /\ req[s].child_key # None => ~Malformed(req[s].child_key[1])
            /\ (IsOp(s, "hashByHeight") /\ AsyncWorkStarted(s)) =>
                  IsU32Height(req[s].height)
            /\ rejections[s] # <<>> => ~AsyncWorkStarted(s))
    /\ [][\A s \in Subs :
            rejections[s] # <<>> =>
                UNCHANGED <<pc[s], frame[s], calls[s], events[s], rejections[s]>>]_vars

\* A storage request rejected for its child key: the key was decoded, and
\* nothing was captured or looked up.
C15_Witness ==
    \E s \in Subs :
        /\ IsOp(s, "storage")
        /\ ~Malformed(req[s].key)
        /\ req[s].child_key = Some(<<"0", "x", "z", "z">>)
        /\ rejections[s] # <<>>
        /\ ~AsyncWorkStarted(s)

-----------------------------------------------------------------------------

Searching(s) == pc[s] = "search"

\* C16: the search always ends: from every state of the loop the work list
\* becomes empty and get_blocks_by_height returns; and the pops are finitely
\* many: the blocks expanded, recorded and pending never exceed the blocks of
\* the tree.
C16_SearchTerminates ==
    /\ \A s \in Subs :
          Searching(s) ~> (SearchCompleted(s) /\ frame[s].next_hash = <<>>)
    /\ [](\A s \in Subs :
            Searching(s) =>
                Len(calls[s]) + Len(frame[s].result) + Len(frame[s].next_hash)
                    <= MaxBlocks)

\* A search of the whole tree from the root for a height no block has.
C16_Witness ==
    \E s \in Subs :
        /\ SearchCompleted(s)
        /\ info.finalized_hash = 1
        /\ frame[s].height_num = [hi |-> Limb - 1, lo |-> Limb - 1]
        /\ Len(calls[s]) = MaxBlocks
        /\ ~SomeLookupFailed(s)
        /\ frame[s].next_hash = <<>>

-----------------------------------------------------------------------------

\* The list sent on a completed hashByHeight subscription.
EmittedHashes(s) ==
    IF IsOp(s, "hashByHeight") /\ Completed(s) /\ Len(events[s]) = 1
    THEN Range(events[s][1].result)
    ELSE {}

\* C17: while the backend advances its finalized block between the steps of
\* the request's task, the (hash, number) pair seeding the search denotes one
\* block, and every hash sent by hashByHeight(H) is a block whose height in
\* the tree is H.
C17_EmittedAtHeight ==
    \A s \in Subs :
        /\ Searching(s) =>
              u32_from(NumberOf(parent, frame[s].finalized_hash))
                  = frame[s].finalized_number
        /\ \A b \in EmittedHashes(s) :
              u32_from(NumberOf(parent, b)) = frame[s].height_num

-----------------------------------------------------------------------------

u32_lt(a, b) == ~u32_ge(a, b)
U32Max == [hi |-> Limb - 1, lo |-> Limb - 1]

\* The entries one iteration of the loop pushed on the work list.
Pushed(s) ==
    {frame[s].next_hash'[i] :
        i \in Len(frame[s].next_hash)..Len(frame[s].next_hash')}

\* C18: in the search every entry of the work list carries a number between
\* the number of the seed and the target H; children are looked up only for a
\* popped entry numbered strictly below H, whose increment therefore does not
\* saturate, and the entries pushed are numbered one above it; a popped entry
\* numbered H is recorded with no lookup and nothing pushed.
C18_WorkListBounds ==
    /\ [](\A s \in Subs :
            Searching(s) =>
                /\ u32_lt(frame[s].finalized_number, frame[s].height_num)
                /\ \A i \in 1..Len(frame[s].next_hash) :
                      /\ u32_ge(frame[s].next_hash[i].number,
                                frame[s].finalized_number)
                      /\ u32_ge(frame[s].height_num,
                                frame[s].next_hash[i].number))
    /\ [][\A s \in Subs :
            (Searching(s) /\ frame[s]' # frame[s]) =>
                LET popped == Last(frame[s].next_hash)
                IN  IF calls[s]' # calls[s]
                    THEN /\ u32_lt(popped.number, frame[s].height_num)
                         /\ popped.number # U32Max
                         /\ Last(calls[s]').fn = "children"
                         /\ Last(calls[s]').arg = popped.hash
                         /\ frame[s].result' = frame[s].result
                         /\ \A e \in Pushed(s) :
                               /\ u32_lt(popped.number, e.number)
                               /\ e.number = saturating_add_one(popped.number)
                    ELSE /\ popped.number = frame[s].height_num
                         /\ frame[s].result' = Append(frame[s].result, popped.hash)
                         /\ frame[s].next_hash' = Front(frame[s].next_hash)]_vars

\* The work list holds an entry at the target next to one below it, after
\* lookups of children.
C18_Witness ==
    \E s \in Subs :
        /\ Searching(s)
        /\ calls[s] # <<>>
        /\ \E i, j \in 1..Len(frame[s].next_hash) :
              /\ frame[s].next_hash[i].number = frame[s].height_num
              /\ u32_lt(frame[s].next_hash[j].number, frame[s].height_num)
              /\ u32_lt(frame[s].finalized_number, frame[s].next_hash[j].number)

-----------------------------------------------------------------------------

\* How many times the hash b stands in the list.
Occurrences(list, b) == Cardinality({i \in 1..Len(list) : list[i] = b})

\* C19: over a tree the list sent by the search holds no hash twice, and when
\* no enumeration of children failed it holds each descendant of the seed at
\* height H exactly once and nothing else.
C19_NoDuplicates ==
    \A s \in Subs :
        SearchCompleted(s) =>
            /\ Len(events[s]) = 1
            /\ events[s][1].event = "Done"
            /\ \A b \in Hashes : Occurrences(events[s][1].result, b) <= 1
            /\ ~SomeLookupFailed(s) =>
                  \A b \in Hashes :
                      Occurrences(events[s][1].result, b) =
                          IF b \in DescendantsAt(parent, frame[s].finalized_hash,
                                                 frame[s].height_num)
                          THEN 1 ELSE 0

\* Three forks at the target height, each listed once, found from a seed
\* that is not the root.
C19_Witness ==
    \E s \in Subs :
        /\ SearchCompleted(s)
        /\ ~SomeLookupFailed(s)
        /\ frame[s].finalized_hash # 1
        /\ Len(events[s][1].result) = 3
        /\ Cardinality(Range(events[s][1].result)) = 3

-----------------------------------------------------------------------------

\* What belongs to one subscription.
Component(s) == <<pc[s], req[s], frame[s], rejections[s], events[s], calls[s]>>

InFlight(s) == pc[s] \notin {"idle", "returned", "done"}

\* The list get_blocks_by_height returns when it runs on its own from the
\* frame f and the backend gives the answers from the i-th on.
RECURSIVE SearchAlone(_, _, _)
SearchAlone(f, answers, i) ==
    IF f.next_hash = <<>> THEN f.result
    ELSE IF Last(f.next_hash).number = f.height_num
         THEN SearchAlone(search_iteration(f, Ok(<<>>)), answers, i)
         ELSE IF i > Len(answers) THEN f.result
              ELSE SearchAlone(search_iteration(f, answers[i].res), answers, i + 1)

\* The rejection of the request r when it is the only one.
RejectionAlone(r) ==
    IF r.op = "hashByHeight" /\ ~height_param(r.height).ok
    THEN <<height_param(r.height).err>>
    ELSE IF r.op = "storage" /\ ~storage_params(r.key, r.child_key).ok
         THEN <<storage_params(r.key, r.child_key).err>>
         ELSE <<>>

\* The event of the accepted request r when it is the only one and the
\* backend gives the answers.
EventAlone(r, answers) ==
    IF r.op = "body" THEN body_event(answers[1].res)
    ELSE IF r.op = "header" THEN header_event(answers[1].res)
    ELSE IF r.op = "storage"
    THEN LET params == storage_params(r.key, r.child_key).val
         IN  IF params.child_key # None
             THEN IF child_key_reserved(params.child_key[1]) THEN Done(None)
                  ELSE child_storage_event(answers[1].res)
             ELSE IF main_key_reserved(params.key) THEN Done(None)
                  ELSE storage_event(answers[1].res)
    ELSE LET height_num == height_param(r.height).val
         IN  IF is_finalized(info.finalized_number, height_num)
             THEN Done(finalized_result(answers[1].res))
             ELSE Done(SearchAlone(
                     [height_num |-> height_num,
                      next_hash |-> <<[number |-> info.finalized_number,
                                       hash |-> info.finalized_hash]>>,
                      result |-> <<>>],
                     answers, 1))

\* C20: with two subscriptions running at once over an unchanging backend,
\* a subscription that has its outcome has the rejection, or the event with
\* the payload, that its request alone yields from the answers the backend
\* gave to it; no step touches what belongs to the other subscription; and a
\* spawned future that has not finished can always take its next step,
\* wherever the other one stands, so either may complete first.
C20_Independent ==
    /\ [](\A s \in Subs :
            /\ Terminal(s) =>
                  /\ Called(s)
                  /\ rejections[s] = RejectionAlone(req[s])
                  /\ events[s] = IF rejections[s] # <<>> THEN <<>>
                                 ELSE <<EventAlone(req[s], calls[s])>>
            /\ InFlight(s) => ENABLED Progress(s))
    /\ [][\A s, o \in Subs :
            (s # o /\ Component(s)' # Component(s)) =>
                Component(o)' = Component(o)]_vars

\* The second subscription has completed while the first, which has made
\* lookups of its own, is still in its search; both were accepted.
C20_Witness ==
    /\ Searching("s1")
    /\ calls["s1"] # <<>>
    /\ frame["s1"].next_hash # <<>>
    /\ Completed("s2")
    /\ calls["s2"] # <<>>
    /\ Len(events["s2"]) = 1
    /\ events["s1"] = <<>>

====
